---- MODULE Spec2Model ----
(***************************************************************************)
(* Model of the remove-liquidity instruction of the liquidity pool         *)
(* (programs/marinade-finance/src/instructions/liq_pool/                   *)
(* remove_liquidity.rs): RemoveLiquidity::check_burn_from and              *)
(* RemoveLiquidity::process.                                               *)
(*                                                                         *)
(* One call of process is modelled statement by statement: `pc` is the     *)
(* position inside process, `accts` is the account data as the running     *)
(* instruction sees it, `chain` is the account data persisted by the host  *)
(* (changed only when an instruction returns Ok), `pre` is `chain` as it   *)
(* was when the running call started.                                      *)
(***************************************************************************)
EXTENDS Integers, Sequences, FiniteSets, TLC

VARIABLES chain, accts, pre, pc, args, sol_out_amount, msol_out_amount,
          result, cpi_log

vars == <<chain, accts, pre, pc, args, sol_out_amount, msol_out_amount,
          result, cpi_log>>

(***************************************************************************)
(* Bounds of the model.                                                    *)
(***************************************************************************)
\* Largest value of the unsigned word that stands for u64.  The widened
\* intermediate of proportional (u128) is the product of two such words.
U64_MAX == 32767
\* Largest tracked / minted LP supply of an initial pool.
MaxSupply == 2
\* Largest raw lamport balance of the native leg of an initial pool.
MaxLamports == 3
\* Largest derivative balance of the derivative leg of an initial pool.
MaxMsol == 2
\* Largest delegated allowance on the source holding of an initial pool.
MaxDelegated == 2
\* Largest requested amount of LP tokens.
MaxTokens == 3

(***************************************************************************)
(* Keys (account addresses).                                               *)
(***************************************************************************)
None == "none"
Users == {"alice", "bob", "carol"}
LpMintKey == "lp_mint"
MsolLegKey == "liq_pool_msol_leg"
MsolLegAuthorityKey == "liq_pool_msol_leg_authority"
OtherKey == "other"

(***************************************************************************)
(* Results.  Ok, or the error the call returns.  The errors of             *)
(* check_burn_from keep the names of the source (ProgramError); the        *)
(* errors of the helpers keep the names of the error taxonomy.             *)
(***************************************************************************)
Ok == "Ok"
InsufficientFunds == "InsufficientFunds"
InvalidArgument == "InvalidArgument"
\* The taxonomy's name for the error of a caller that is neither the owner
\* nor the delegate; the source returns ProgramError::InvalidArgument.
Unauthorized == InvalidArgument
ConfigMismatch == "ConfigMismatch"
ArithmeticOverflow == "ArithmeticOverflow"
DivideByZero == "DivideByZero"
Underflow == "Underflow"
SlippageExceeded == "SlippageExceeded"
TransferFailure == "TransferFailure"
ConversionError == "ConversionError"
\* unwrap() / expect() on a None / Err value: the program aborts.
Panic == "Panic"

Min(a, b) == IF a <= b THEN a ELSE b

(***************************************************************************)
(* Helpers of the crate that process calls.                                *)
(***************************************************************************)
\* calc::proportional(amount, numerator, denominator):
\* floor(amount * numerator / denominator) through a widened product.
proportional(amount, numerator, denominator) ==
    IF denominator = 0
    THEN [err |-> DivideByZero, val |-> 0]
    ELSE LET q == (amount * numerator) \div denominator
         IN  IF q > U64_MAX
             THEN [err |-> ArithmeticOverflow, val |-> 0]
             ELSE [err |-> Ok, val |-> q]

\* checks::check_min_amount(amount, min_amount, action_name)
check_min_amount(amount, min_amount) ==
    IF amount >= min_amount THEN Ok ELSE SlippageExceeded

\* LiqPool::check_lp_mint(lp_mint)
check_lp_mint(a, lp_mint) ==
    IF lp_mint = a.lp_mint THEN Ok ELSE ConfigMismatch

\* LiqPool::check_liq_pool_msol_leg(liq_pool_msol_leg)
check_liq_pool_msol_leg(a, liq_pool_msol_leg) ==
    IF liq_pool_msol_leg = a.msol_leg THEN Ok ELSE ConfigMismatch

\* State::check_liq_pool_msol_leg_authority(liq_pool_msol_leg_authority):
\* the address derived from the leg's seed material.
check_liq_pool_msol_leg_authority(a, liq_pool_msol_leg_authority) ==
    IF liq_pool_msol_leg_authority = a.msol_leg_authority
    THEN Ok ELSE ConfigMismatch

\* State::calc_lamports_from_msol_amount(msol_amount): the derivative amount
\* in native units at the rate rate_value / rate_shares; an invalid rate
\* state (no shares) or a value that does not fit is an error.
calc_lamports_from_msol_amount(a, msol_amount) ==
    IF a.rate_shares = 0
    THEN [err |-> ConversionError, val |-> 0]
    ELSE LET q == (msol_amount * a.rate_value) \div a.rate_shares
         IN  IF q > U64_MAX
             THEN [err |-> ConversionError, val |-> 0]
             ELSE [err |-> Ok, val |-> q]

\* LiqPool::on_lp_burn(amount): lp_supply = lp_supply.checked_sub(amount)
on_lp_burn(lp_supply, amount) ==
    IF amount > lp_supply
    THEN [err |-> Underflow, val |-> lp_supply]
    ELSE [err |-> Ok, val |-> lp_supply - amount]

(***************************************************************************)
(* RemoveLiquidity::check_burn_from                                        *)
(***************************************************************************)
\* Mutant: the delegate branch is tried before the owner branch.
check_burn_from_delegate_first(a, burn_from_authority, tokens) ==
    IF a.burn_from_delegate = burn_from_authority
    THEN IF a.burn_from_delegated_amount < tokens
         THEN InsufficientFunds ELSE Ok
    ELSE IF burn_from_authority = a.burn_from_owner
         THEN IF a.burn_from_amount < tokens THEN InsufficientFunds ELSE Ok
         ELSE InvalidArgument

check_burn_from(a, burn_from_authority, tokens) ==
    IF burn_from_authority = a.burn_from_owner
    THEN IF a.burn_from_amount < tokens THEN InsufficientFunds ELSE Ok
    ELSE IF a.burn_from_delegate = burn_from_authority
         THEN IF a.burn_from_delegated_amount < tokens
              THEN InsufficientFunds ELSE Ok
         ELSE InvalidArgument

(***************************************************************************)
(* RemoveLiquidity::process, statement by statement.                       *)
(***************************************************************************)
\* "rem-liq pre check": the four checks in the order of the source; the
\* first one that fails is the error of the call.
\* Mutant: the two checks of the derivative leg are left out.
pre_check_without_leg(a, ar) ==
    IF check_lp_mint(a, ar.lp_mint) # Ok
    THEN check_lp_mint(a, ar.lp_mint)
    ELSE check_burn_from(a, ar.burn_from_authority, ar.tokens)

pre_check(a, ar) ==
    IF check_lp_mint(a, ar.lp_mint) # Ok
    THEN check_lp_mint(a, ar.lp_mint)
    ELSE IF check_burn_from(a, ar.burn_from_authority, ar.tokens) # Ok
    THEN check_burn_from(a, ar.burn_from_authority, ar.tokens)
    ELSE IF check_liq_pool_msol_leg(a, ar.liq_pool_msol_leg) # Ok
    THEN check_liq_pool_msol_leg(a, ar.liq_pool_msol_leg)
    ELSE check_liq_pool_msol_leg_authority(a, ar.liq_pool_msol_leg_authority)

\* "Update virtual lp_supply by real one": the tracked supply after the
\* if / else on lp_mint.supply > state.liq_pool.lp_supply.
\* Mutant: the comparison is reversed, the larger supply is kept.
update_virtual_lp_supply_max(lp_supply, mint_supply) ==
    IF mint_supply < lp_supply THEN lp_supply ELSE mint_supply

\* Mutant: the tracked supply is always overwritten by the minted one.
update_virtual_lp_supply_always(lp_supply, mint_supply) == mint_supply

update_virtual_lp_supply(lp_supply, mint_supply) ==
    IF mint_supply > lp_supply THEN lp_supply ELSE mint_supply

\* let sol_out_amount = proportional(tokens,
\*     sol_leg.lamports().checked_sub(rent_exempt_for_token_acc).unwrap(),
\*     lp_supply)?
\* Mutant: the native payout is taken over the supply left after the burn.
calc_sol_out_amount_after_burn(a, tokens) ==
    IF a.sol_leg_lamports < a.rent_exempt_for_token_acc
    THEN [err |-> Panic, val |-> 0]
    ELSE proportional(tokens,
                      a.sol_leg_lamports - a.rent_exempt_for_token_acc,
                      IF tokens < a.lp_supply
                      THEN a.lp_supply - tokens ELSE a.lp_supply)

\* Mutant: the reserved floor is not taken off the raw balance.
calc_sol_out_amount_raw(a, tokens) ==
    proportional(tokens, a.sol_leg_lamports, a.lp_supply)

calc_sol_out_amount(a, tokens) ==
    IF a.sol_leg_lamports < a.rent_exempt_for_token_acc
    THEN [err |-> Panic, val |-> 0]
    ELSE proportional(tokens,
                      a.sol_leg_lamports - a.rent_exempt_for_token_acc,
                      a.lp_supply)

\* let msol_out_amount = proportional(tokens, msol_leg.amount, lp_supply)?
\* Mutant: numerator and denominator are passed in the wrong order.
calc_msol_out_amount_swapped(a, tokens) ==
    proportional(tokens, a.lp_supply, a.msol_leg_amount)

\* Mutant: the derivative payout is taken over the minted supply.
calc_msol_out_amount_real(a, tokens) ==
    proportional(tokens, a.msol_leg_amount, a.mint_supply)

calc_msol_out_amount(a, tokens) ==
    proportional(tokens, a.msol_leg_amount, a.lp_supply)

\* check_min_amount(sol_out_amount.checked_add(
\*     calc_lamports_from_msol_amount(msol_out_amount).expect(..))
\*     .expect("lamports overflow"), min_withdraw, "removed liquidity")?
\* Mutant: the outcome of check_min_amount is dropped.
min_amount_guard_unchecked(a, sol_out, msol_out) ==
    LET conv == calc_lamports_from_msol_amount(a, msol_out)
    IN  IF conv.err # Ok THEN Panic
        ELSE IF sol_out + conv.val > U64_MAX THEN Panic
        ELSE Ok

min_amount_guard(a, sol_out, msol_out) ==
    LET conv == calc_lamports_from_msol_amount(a, msol_out)
    IN  IF conv.err # Ok THEN Panic
        ELSE IF sol_out + conv.val > U64_MAX THEN Panic
        ELSE check_min_amount(sol_out + conv.val, a.min_withdraw)

\* Mutant: a native payout of one lamport is not transferred.
sol_transfer_needed_above_one(sol_out) == sol_out > 1

\* if sol_out_amount > 0 { transfer SOL }
sol_transfer_needed(sol_out) == sol_out > 0

\* Mutant: a derivative payout of one unit is not transferred.
msol_transfer_needed_above_one(msol_out) == msol_out > 1

\* if msol_out_amount > 0 { transfer mSOL }
msol_transfer_needed(msol_out) == msol_out > 0

\* Mutant: the amount is taken off the minted supply, not the tracked one.
lp_supply_on_burn_real(a, tokens) == on_lp_burn(a.mint_supply, tokens)

\* Mutant: the tracked supply is checked but not decremented.
lp_supply_on_burn_kept(a, tokens) ==
    [err |-> on_lp_burn(a.lp_supply, tokens).err, val |-> a.lp_supply]

\* self.state.liq_pool.on_lp_burn(tokens)?
lp_supply_on_burn(a, tokens) == on_lp_burn(a.lp_supply, tokens)

(***************************************************************************)
(* The ledger / token service and the host.                                *)
(***************************************************************************)
\* system_instruction::transfer from the native leg to transfer_sol_to.
system_transfer_ok(a, lamports) ==
    /\ lamports <= a.sol_leg_lamports
    /\ a.sol_to_lamports + lamports <= U64_MAX

system_transfer(a, lamports) ==
    [a EXCEPT !.sol_leg_lamports = @ - lamports,
              !.sol_to_lamports = @ + lamports]

\* token transfer from the derivative leg to transfer_msol_to.
token_transfer_ok(a, amount) ==
    /\ amount <= a.msol_leg_amount
    /\ a.msol_to_amount + amount <= U64_MAX

token_transfer(a, amount) ==
    [a EXCEPT !.msol_leg_amount = @ - amount,
              !.msol_to_amount = @ + amount]

\* token burn from burn_from, signed by burn_from_authority: an authority
\* that is the registered delegate burns out of its allowance (the token
\* service looks at the delegate first), the owner out of the balance.
token_burn_ok(a, authority, amount) ==
    /\ amount <= a.burn_from_amount
    /\ amount <= a.mint_supply
    /\ IF a.burn_from_delegate = authority
       THEN amount <= a.burn_from_delegated_amount
       ELSE authority = a.burn_from_owner

token_burn(a, authority, amount) ==
    LET by_delegate == a.burn_from_delegate = authority
        left == a.burn_from_delegated_amount - amount
    IN  [a EXCEPT !.burn_from_amount = @ - amount,
                  !.mint_supply = @ - amount,
                  !.burn_from_delegated_amount =
                      IF by_delegate THEN left ELSE @,
                  !.burn_from_delegate =
                      IF by_delegate /\ left = 0 THEN None ELSE @]

\* Mutant: the writes of a failed instruction stay.
RolledBackPartial(persisted, working) == working

\* Mutant: only the tracked supply written by a failed instruction stays.
RolledBackButSupply(persisted, working) ==
    [persisted EXCEPT !.lp_supply = working.lp_supply]

\* What the host persists when the instruction returns an error: the
\* account data as it was before the instruction.
RolledBack(persisted, working) == persisted

\* What the host persists when the instruction returns Ok.
Committed(persisted, working) == working

(***************************************************************************)
(* Initial pools and the inputs of a call.                                 *)
(***************************************************************************)
\* min_withdraw and the rate state (value, shares) of the initial pools: no
\* threshold, a threshold at 1:1, a threshold at 2:1, an invalid rate state,
\* a rate at which one derivative unit is worth the largest word.
Configs ==
    {<<0, 1, 1>>, <<1, 1, 1>>, <<2, 2, 1>>, <<1, 1, 0>>, <<0, U64_MAX, 1>>}

Pool(lp, mint, amt, dlg, dlgamt, sol, msol, rent, cfg) ==
    [lp_mint |-> LpMintKey,
     msol_leg |-> MsolLegKey,
     msol_leg_authority |-> MsolLegAuthorityKey,
     rent_exempt_for_token_acc |-> rent,
     min_withdraw |-> cfg[1],
     rate_value |-> cfg[2],
     rate_shares |-> cfg[3],
     lp_supply |-> lp,
     mint_supply |-> mint,
     burn_from_owner |-> "alice",
     burn_from_delegate |-> dlg,
     burn_from_amount |-> amt,
     burn_from_delegated_amount |-> dlgamt,
     sol_leg_lamports |-> sol,
     msol_leg_amount |-> msol,
     sol_to_lamports |-> 0,
     msol_to_amount |-> 0]

Delegations ==
    {<<None, 0>>, <<"alice", 0>>} \cup {<<"bob", d>> : d \in 1 .. MaxDelegated}

\* The raw balance of the native leg starts below, at or above the reserved
\* floor: process accepts all three and aborts on the first (lines 103-106).
SmallPools ==
    {Pool(lp, mint, amt, dg[1], dg[2], sol, msol, 1, cfg) :
        lp \in 0 .. MaxSupply, mint \in 0 .. MaxSupply,
        amt \in 0 .. MaxSupply, dg \in Delegations,
        sol \in 0 .. MaxLamports, msol \in 0 .. MaxMsol,
        cfg \in Configs}

\* The pool of the end-to-end example: tracked supply 1000, distributable
\* native balance 500, derivative balance 400, rate 1:1, threshold 10 or 1000.
ExamplePools ==
    {Pool(1000, 1000, 100, None, 0, 501, 400, 1, <<minw, 1, 1>>) :
        minw \in {10, 1000}}

InitialPools ==
    {p \in SmallPools : p.burn_from_amount <= p.mint_supply} \cup ExamplePools

TokenInputs == (0 .. MaxTokens) \cup {100}

Args ==
    [tokens : TokenInputs,
     burn_from_authority : Users,
     lp_mint : {LpMintKey, OtherKey},
     liq_pool_msol_leg : {MsolLegKey, OtherKey},
     liq_pool_msol_leg_authority : {MsolLegAuthorityKey, OtherKey}]

NoArgs ==
    [tokens |-> 0, burn_from_authority |-> "alice", lp_mint |-> LpMintKey,
     liq_pool_msol_leg |-> MsolLegKey,
     liq_pool_msol_leg_authority |-> MsolLegAuthorityKey]

Init ==
    /\ chain \in InitialPools
    /\ accts = chain
    /\ pre = chain
    /\ pc = "idle"
    /\ args = NoArgs
    /\ sol_out_amount = 0
    /\ msol_out_amount = 0
    /\ result = "none"
    /\ cpi_log = <<>>

(***************************************************************************)
(* Actions.                                                                *)
(***************************************************************************)
\* The instruction returns Err(e) (or aborts): nothing of it is persisted.
Abort(e) ==
    /\ pc' = "done"
    /\ result' = e
    /\ chain' = RolledBack(chain, accts)

\* The host hands a remove-liquidity instruction to the program, which
\* runs its pre check on the accounts and the amount it was given.
Begin ==
    /\ pc = "idle"
    /\ \E ar \in Args :
         /\ args' = ar
         /\ IF pre_check(chain, ar) = Ok
            THEN /\ pc' = "update_lp_supply"
                 /\ UNCHANGED <<chain, result>>
            ELSE Abort(pre_check(chain, ar))
    /\ UNCHANGED <<accts, pre, sol_out_amount, msol_out_amount, cpi_log>>

\* The host is done with the instruction; the next one sees what it left.
Return ==
    /\ pc = "done"
    /\ pc' = "idle"
    /\ accts' = chain
    /\ pre' = chain
    /\ args' = NoArgs
    /\ sol_out_amount' = 0
    /\ msol_out_amount' = 0
    /\ result' = "none"
    /\ cpi_log' = <<>>
    /\ UNCHANGED chain

\* Mutant: the reconciled supply is also stored in min_withdraw.
UpdateLpSupplyWrongField ==
    /\ pc = "update_lp_supply"
    /\ accts' = [accts EXCEPT
                    !.lp_supply = update_virtual_lp_supply(accts.lp_supply,
                                                           accts.mint_supply),
                    !.min_withdraw = update_virtual_lp_supply(accts.lp_supply,
                                                              accts.mint_supply)]
    /\ pc' = "sol_out_amount"
    /\ UNCHANGED <<chain, pre, args, sol_out_amount, msol_out_amount,
                   result, cpi_log>>

UpdateLpSupply ==
    /\ pc = "update_lp_supply"
    /\ accts' = [accts EXCEPT !.lp_supply =
                    update_virtual_lp_supply(accts.lp_supply, accts.mint_supply)]
    /\ pc' = "sol_out_amount"
    /\ UNCHANGED <<chain, pre, args, sol_out_amount, msol_out_amount,
                   result, cpi_log>>

SolOutAmount ==
    /\ pc = "sol_out_amount"
    /\ LET r == calc_sol_out_amount(accts, args.tokens)
       IN  IF r.err = Ok
           THEN /\ sol_out_amount' = r.val
                /\ pc' = "msol_out_amount"
                /\ UNCHANGED <<chain, result>>
           ELSE /\ Abort(r.err)
                /\ UNCHANGED sol_out_amount
    /\ UNCHANGED <<accts, pre, args, msol_out_amount, cpi_log>>

MsolOutAmount ==
    /\ pc = "msol_out_amount"
    /\ LET r == calc_msol_out_amount(accts, args.tokens)
       IN  IF r.err = Ok
           THEN /\ msol_out_amount' = r.val
                /\ pc' = "check_min_amount"
                /\ UNCHANGED <<chain, result>>
           ELSE /\ Abort(r.err)
                /\ UNCHANGED msol_out_amount
    /\ UNCHANGED <<accts, pre, args, sol_out_amount, cpi_log>>

CheckMinAmount ==
    /\ pc = "check_min_amount"
    /\ LET r == min_amount_guard(accts, sol_out_amount, msol_out_amount)
       IN  IF r = Ok
           THEN /\ pc' = "transfer_sol"
                /\ UNCHANGED <<chain, result>>
           ELSE Abort(r)
    /\ UNCHANGED <<accts, pre, args, sol_out_amount, msol_out_amount, cpi_log>>

TransferSol ==
    /\ pc = "transfer_sol"
    /\ IF sol_transfer_needed(sol_out_amount)
       THEN /\ cpi_log' = Append(cpi_log, "transfer_sol")
            /\ \E ok \in BOOLEAN :
                 IF ok /\ system_transfer_ok(accts, sol_out_amount)
                 THEN /\ accts' = system_transfer(accts, sol_out_amount)
                      /\ pc' = "transfer_msol"
                      /\ UNCHANGED <<chain, result>>
                 ELSE /\ Abort(TransferFailure)
                      /\ UNCHANGED accts
       ELSE /\ pc' = "transfer_msol"
            /\ UNCHANGED <<chain, accts, result, cpi_log>>
    /\ UNCHANGED <<pre, args, sol_out_amount, msol_out_amount>>

TransferMsol ==
    /\ pc = "transfer_msol"
    /\ IF msol_transfer_needed(msol_out_amount)
       THEN /\ cpi_log' = Append(cpi_log, "transfer_msol")
            /\ \E ok \in BOOLEAN :
                 IF ok /\ token_transfer_ok(accts, msol_out_amount)
                 THEN /\ accts' = token_transfer(accts, msol_out_amount)
                      /\ pc' = "burn"
                      /\ UNCHANGED <<chain, result>>
                 ELSE /\ Abort(TransferFailure)
                      /\ UNCHANGED accts
       ELSE /\ pc' = "burn"
            /\ UNCHANGED <<chain, accts, result, cpi_log>>
    /\ UNCHANGED <<pre, args, sol_out_amount, msol_out_amount>>

\* Mutant: the error of the burn is not propagated (no ?).
BurnUnpropagated ==
    /\ pc = "burn"
    /\ cpi_log' = Append(cpi_log, "burn")
    /\ \E ok \in BOOLEAN :
         accts' = IF ok /\ token_burn_ok(accts, args.burn_from_authority,
                                         args.tokens)
                  THEN token_burn(accts, args.burn_from_authority, args.tokens)
                  ELSE accts
    /\ pc' = "on_lp_burn"
    /\ UNCHANGED <<chain, result, pre, args, sol_out_amount, msol_out_amount>>

Burn ==
    /\ pc = "burn"
    /\ cpi_log' = Append(cpi_log, "burn")
    /\ \E ok \in BOOLEAN :
         IF ok /\ token_burn_ok(accts, args.burn_from_authority, args.tokens)
         THEN /\ accts' = token_burn(accts, args.burn_from_authority, args.tokens)
              /\ pc' = "on_lp_burn"
              /\ UNCHANGED <<chain, result>>
         ELSE /\ Abort(TransferFailure)
              /\ UNCHANGED accts
    /\ UNCHANGED <<pre, args, sol_out_amount, msol_out_amount>>

\* on_lp_burn(tokens)?, then Ok(()): the host persists the instruction.
OnLpBurn ==
    /\ pc = "on_lp_burn"
    /\ cpi_log' = Append(cpi_log, "on_lp_burn")
    /\ LET r == lp_supply_on_burn(accts, args.tokens)
       IN  IF r.err = Ok
           THEN /\ accts' = [accts EXCEPT !.lp_supply = r.val]
                /\ chain' = Committed(chain, accts')
                /\ result' = Ok
                /\ pc' = "done"
           ELSE /\ Abort(r.err)
                /\ UNCHANGED accts
    /\ UNCHANGED <<pre, args, sol_out_amount, msol_out_amount>>

Next ==
    \/ Begin
    \/ Return
    \/ UpdateLpSupply
    \/ SolOutAmount
    \/ MsolOutAmount
    \/ CheckMinAmount
    \/ TransferSol
    \/ TransferMsol
    \/ Burn
    \/ OnLpBurn

Spec == Init /\ [][Next]_vars

(***************************************************************************)
(* Vocabulary of the properties.                                           *)
(***************************************************************************)
Done == pc = "done"
Succeeded == pc = "done" /\ result = Ok
Failed == pc = "done" /\ result # Ok
\* A call is running or has just returned.
InCall == pc # "idle"
Issued(step) == \E i \in 1 .. Len(cpi_log) : cpi_log[i] = step
\* The denominator of the call: the tracked supply after reconciliation.
Reconciled == IF pre.mint_supply > pre.lp_supply
              THEN pre.lp_supply ELSE pre.mint_supply
Distributable == pre.sol_leg_lamports - pre.rent_exempt_for_token_acc

(***************************************************************************)
(* C1.  All-or-nothing: when a call ends in failure, at whatever stage,    *)
(* the native leg, the derivative leg, both destinations, the source        *)
(* holding and the LP mint's supply (every persisted account) are as they   *)
(* were before the call, also when transfers had already executed; and a    *)
(* settlement step that fails ends the call in failure at once.             *)
(***************************************************************************)
\* A settlement step (transfer, burn, on_lp_burn) of a non-zero request was
\* issued and had no effect: it failed.
SettlementStepFailed ==
    /\ cpi_log' # cpi_log
    /\ Len(cpi_log') > 0
    /\ args.tokens > 0
    /\ accts' = accts

C1_AllOrNothing ==
    /\ [](Failed => chain = pre)
    /\ [][SettlementStepFailed =>
            (pc' = "done" /\ result' # Ok /\ chain' = pre)]_vars

\* The burn failed after both transfers had executed inside the call.
C1_Witness ==
    /\ Failed
    /\ cpi_log = <<"transfer_sol", "transfer_msol", "burn">>
    /\ accts.sol_leg_lamports < pre.sol_leg_lamports
    /\ accts.msol_leg_amount < pre.msol_leg_amount
    /\ chain = pre

(***************************************************************************)
(* C2.  A failed call never changes the persisted tracked LP supply, also  *)
(* when reconciliation had lowered the tracked supply inside the call: a    *)
(* changed tracked supply is persisted only by a successful call.           *)
(***************************************************************************)
C2_TrackedSupplyKeptOnFailure ==
    /\ Failed => chain.lp_supply = pre.lp_supply
    /\ (Done /\ chain.lp_supply # pre.lp_supply) => result = Ok

\* Reconciliation lowered the tracked supply, then the call failed.
C2_Witness ==
    /\ Failed
    /\ pre.mint_supply < pre.lp_supply
    /\ accts.lp_supply = pre.mint_supply
    /\ chain.lp_supply = pre.lp_supply

(***************************************************************************)
(* C3.  On success both payouts are the floors of tokens * reserve / D     *)
(* over the same denominator D, the reconciled tracked supply, with the     *)
(* reserves read before any transfer (the native one less the reserved      *)
(* floor); each leg decreases by exactly its payout.  The example pool      *)
(* (1000, 500, 400, redeem 100) pays 50 and 40 and ends with 900.           *)
(***************************************************************************)
C3_PayoutsFromOneSnapshot ==
    Succeeded =>
        /\ sol_out_amount = (args.tokens * Distributable) \div Reconciled
        /\ msol_out_amount = (args.tokens * pre.msol_leg_amount) \div Reconciled
        /\ chain.sol_leg_lamports = pre.sol_leg_lamports - sol_out_amount
        /\ chain.msol_leg_amount = pre.msol_leg_amount - msol_out_amount
        /\ (pre.lp_supply = 1000 /\ args.tokens = 100) =>
              /\ sol_out_amount = 50
              /\ msol_out_amount = 40
              /\ chain.lp_supply = 900

\* The end-to-end example has run.
C3_Witness ==
    /\ Succeeded
    /\ pre.lp_supply = 1000 /\ Distributable = 500 /\ pre.msol_leg_amount = 400
    /\ args.tokens = 100
    /\ sol_out_amount = 50 /\ msol_out_amount = 40
    /\ chain.lp_supply = 900

(***************************************************************************)
(* C4 (as claimed).  On success the persisted tracked supply is the        *)
(* tracked supply before the call less the burned amount, and strictly      *)
(* smaller than before.                                                     *)
(***************************************************************************)
C4_Original ==
    Succeeded =>
        /\ chain.lp_supply = pre.lp_supply - args.tokens
        /\ chain.lp_supply < pre.lp_supply

(***************************************************************************)
(* C4 (amended).  On success the persisted tracked supply is the           *)
(* reconciled tracked supply, min(tracked before, minted before), less the  *)
(* burned amount; it is at most the tracked supply before less the burned   *)
(* amount, and strictly smaller than before when tokens > 0 or when the     *)
(* minted supply was below the tracked one.                                 *)
(***************************************************************************)
C4_TrackedSupplyDecreases ==
    Succeeded =>
        /\ chain.lp_supply = Reconciled - args.tokens
        /\ chain.lp_supply <= pre.lp_supply - args.tokens
        /\ (args.tokens > 0 \/ pre.mint_supply < pre.lp_supply)
              => chain.lp_supply < pre.lp_supply

\* A successful call on a pool whose minted supply was below the tracked one.
C4_Witness ==
    /\ Succeeded
    /\ args.tokens > 0
    /\ pre.mint_supply < pre.lp_supply
    /\ chain.lp_supply = pre.mint_supply - args.tokens

(***************************************************************************)
(* C5.  Settlement order: native transfer, derivative transfer, LP burn,   *)
(* tracked-supply commit.  The burn is issued only after every transfer     *)
(* with a payout > 0 was issued and succeeded, a leg with payout 0 gets no  *)
(* transfer while the burn is still performed, and on_lp_burn runs only     *)
(* after the burn succeeded.                                                *)
(***************************************************************************)
SettlementOrder == <<"transfer_sol", "transfer_msol", "burn", "on_lp_burn">>
Position(step) == CHOOSE i \in 1 .. 4 : SettlementOrder[i] = step

C5_SettlementOrder ==
    /\ \A i \in 1 .. Len(cpi_log) : cpi_log[i] \in {"transfer_sol",
                                      "transfer_msol", "burn", "on_lp_burn"}
    /\ \A i, j \in 1 .. Len(cpi_log) :
          i < j => Position(cpi_log[i]) < Position(cpi_log[j])
    /\ Issued("transfer_sol") => sol_out_amount > 0
    /\ Issued("transfer_msol") => msol_out_amount > 0
    /\ Issued("burn") =>
          /\ sol_out_amount > 0 => Issued("transfer_sol")
          /\ msol_out_amount > 0 => Issued("transfer_msol")
          /\ accts.sol_leg_lamports = pre.sol_leg_lamports - sol_out_amount
          /\ accts.sol_to_lamports = pre.sol_to_lamports + sol_out_amount
          /\ accts.msol_leg_amount = pre.msol_leg_amount - msol_out_amount
          /\ accts.msol_to_amount = pre.msol_to_amount + msol_out_amount
    /\ Issued("on_lp_burn") =>
          /\ Issued("burn")
          /\ accts.mint_supply = pre.mint_supply - args.tokens
          /\ accts.burn_from_amount = pre.burn_from_amount - args.tokens
    /\ Succeeded => Issued("burn") /\ Issued("on_lp_burn")

\* A successful call with a native payout and no derivative payout: one
\* transfer, then the burn, then the commit.
C5_Witness ==
    /\ Succeeded
    /\ sol_out_amount > 0 /\ msol_out_amount = 0
    /\ args.tokens > 0
    /\ cpi_log = <<"transfer_sol", "burn", "on_lp_burn">>

(***************************************************************************)
(* C6.  The reserved floor is never withdrawn: from a native leg whose raw *)
(* balance is at least rent_exempt_for_token_acc, the persisted raw balance *)
(* after a call (failed or successful, also with the minted supply above    *)
(* the tracked one) is still at least the floor; the native payout of a     *)
(* successful call is at most raw balance - floor.                          *)
(***************************************************************************)
C6_ReservedFloorKept ==
    pre.sol_leg_lamports >= pre.rent_exempt_for_token_acc =>
        /\ chain.sol_leg_lamports >= chain.rent_exempt_for_token_acc
        /\ Succeeded => sol_out_amount <= Distributable

\* A successful call, on a pool whose minted supply exceeds the tracked one,
\* that pays out the whole distributable balance and leaves the floor.
C6_Witness ==
    /\ Succeeded
    /\ pre.mint_supply > pre.lp_supply
    /\ sol_out_amount > 0
    /\ sol_out_amount = Distributable
    /\ chain.sol_leg_lamports = chain.rent_exempt_for_token_acc

(***************************************************************************)
(* C7.  Minimum-output guard: when the payouts are computed and native     *)
(* payout + convert(derivative payout) is below min_withdraw, the call      *)
(* fails with SlippageExceeded with no transfer, no burn and nothing        *)
(* changed; the call goes on to the first transfer only if that value is    *)
(* at least min_withdraw.                                                   *)
(***************************************************************************)
Converted == (msol_out_amount * accts.rate_value) \div accts.rate_shares

C7_MinimumOutputGuard ==
    [][pc = "check_min_amount" =>
          /\ (/\ accts.rate_shares # 0
              /\ Converted <= U64_MAX
              /\ sol_out_amount + Converted < accts.min_withdraw)
             => /\ pc' = "done"
                /\ result' = SlippageExceeded
                /\ cpi_log' = <<>>
                /\ chain' = pre
                /\ chain'.lp_supply = pre.lp_supply
          /\ pc' = "transfer_sol"
             => /\ accts.rate_shares # 0
                /\ sol_out_amount + Converted >= accts.min_withdraw
                /\ cpi_log' = <<>>
      ]_vars

\* The example pool with min_withdraw 1000: combined value 90 is refused.
C7_Witness ==
    /\ Failed
    /\ result = SlippageExceeded
    /\ pre.min_withdraw = 1000
    /\ sol_out_amount = 50 /\ msol_out_amount = 40
    /\ chain = pre

(***************************************************************************)
(* C8.  check_burn_from(tokens) decides in this order and changes nothing: *)
(* the owner succeeds exactly when balance >= tokens, else                  *)
(* InsufficientFunds (delegate and allowance not consulted, even if the     *)
(* owner is also the delegate); else the delegate succeeds exactly when     *)
(* allowance >= tokens, else InsufficientFunds; anyone else is              *)
(* Unauthorized.                                                            *)
(***************************************************************************)
AuthorityRule ==
    IF args.burn_from_authority = pre.burn_from_owner
    THEN IF pre.burn_from_amount >= args.tokens THEN Ok ELSE InsufficientFunds
    ELSE IF args.burn_from_authority = pre.burn_from_delegate
         THEN IF pre.burn_from_delegated_amount >= args.tokens
              THEN Ok ELSE InsufficientFunds
         ELSE Unauthorized

C8_CheckBurnFrom ==
    (InCall /\ args.lp_mint = pre.lp_mint) =>
        /\ AuthorityRule # Ok =>
              /\ Failed
              /\ result = AuthorityRule
              /\ chain = pre /\ accts = pre /\ cpi_log = <<>>
        /\ AuthorityRule = Ok => result \notin {InsufficientFunds, Unauthorized}
        /\ pc = "update_lp_supply" =>
              /\ AuthorityRule = Ok
              /\ chain = pre /\ accts = pre /\ cpi_log = <<>>

\* The owner is also the delegate, with an allowance below the request: the
\* balance alone decides and the call passes the check.
C8_Witness ==
    /\ pc = "update_lp_supply"
    /\ args.burn_from_authority = pre.burn_from_owner
    /\ pre.burn_from_delegate = pre.burn_from_owner
    /\ pre.burn_from_delegated_amount < args.tokens
    /\ pre.burn_from_amount >= args.tokens

(***************************************************************************)
(* C9 (as claimed).  A call whose LP mint, derivative-leg custody or       *)
(* derivative-leg transfer authority differs from the pool's fails with     *)
(* ConfigMismatch, whatever the authorization outcome, before               *)
(* reconciliation, computation and mutation.                                *)
(***************************************************************************)
Mismatch ==
    \/ args.lp_mint # pre.lp_mint
    \/ args.liq_pool_msol_leg # pre.msol_leg
    \/ args.liq_pool_msol_leg_authority # pre.msol_leg_authority

NothingDone ==
    /\ chain = pre
    /\ accts = pre
    /\ cpi_log = <<>>
    /\ sol_out_amount = 0 /\ msol_out_amount = 0

C9_Original ==
    (InCall /\ Mismatch) =>
        /\ Failed
        /\ result = ConfigMismatch
        /\ NothingDone

(***************************************************************************)
(* C9 (amended).  Such a call fails before reconciliation, computation and *)
(* mutation; the error is ConfigMismatch when the LP mint differs or when   *)
(* the authorization check passes, and the error of the authorization       *)
(* check (InsufficientFunds, Unauthorized) when the LP mint matches and     *)
(* that check fails, because it runs before the two derivative-leg checks.  *)
(***************************************************************************)
C9_ConfigMismatch ==
    (InCall /\ Mismatch) =>
        /\ Failed
        /\ NothingDone
        /\ result = IF args.lp_mint # pre.lp_mint \/ AuthorityRule = Ok
                    THEN ConfigMismatch
                    ELSE AuthorityRule

\* An authorized call with the right mint and a wrong derivative-leg
\* transfer authority has been refused.
C9_Witness ==
    /\ Failed
    /\ args.lp_mint = pre.lp_mint
    /\ args.liq_pool_msol_leg = pre.msol_leg
    /\ args.liq_pool_msol_leg_authority # pre.msol_leg_authority
    /\ AuthorityRule = Ok
    /\ result = ConfigMismatch

(***************************************************************************)
(* C10.  Reconciliation yields min(tracked, minted): a minted supply above *)
(* the tracked one leaves the tracked supply unchanged and the call goes    *)
(* on; otherwise the tracked supply becomes the minted supply.  Right       *)
(* after reconciliation, and after every successful call, tracked <=        *)
(* minted.                                                                  *)
(***************************************************************************)
C10_Reconciliation ==
    /\ pc = "sol_out_amount" =>
          /\ pre.mint_supply > pre.lp_supply => accts.lp_supply = pre.lp_supply
          /\ pre.mint_supply <= pre.lp_supply => accts.lp_supply = pre.mint_supply
          /\ accts.lp_supply <= accts.mint_supply
    /\ Succeeded => chain.lp_supply <= chain.mint_supply

\* Right after reconciliation of a pool whose minted supply is above the
\* tracked one: the tracked supply is unchanged and the call continues.
C10_Witness ==
    /\ pc = "sol_out_amount"
    /\ pre.mint_supply > pre.lp_supply
    /\ accts.lp_supply = pre.lp_supply

(***************************************************************************)
(* C11 (as claimed).  The Underflow failure of the final commit is         *)
(* unreachable: whenever process reaches on_lp_burn(tokens), tokens is at   *)
(* most the reconciled tracked supply, also when the minted supply exceeds  *)
(* the tracked supply at entry and when both payouts are 0.                 *)
(***************************************************************************)
C11_Original ==
    /\ pc = "on_lp_burn" => args.tokens <= accts.lp_supply
    /\ result # Underflow

(***************************************************************************)
(* C11 (amended).  When the minted supply is at most the tracked supply at *)
(* entry, a call that reaches on_lp_burn(tokens) has tokens <= reconciled   *)
(* tracked supply and the subtraction cannot fail.  Underflow is returned   *)
(* only by a call that entered with minted supply > tracked supply and      *)
(* tokens > tracked supply; that call fails and persists nothing.           *)
(***************************************************************************)
C11_UnderflowOnlyAfterExternalMint ==
    /\ (pc = "on_lp_burn" /\ pre.mint_supply <= pre.lp_supply) =>
          /\ accts.lp_supply = pre.mint_supply
          /\ args.tokens <= accts.lp_supply
    /\ result = Underflow =>
          /\ pre.mint_supply > pre.lp_supply
          /\ args.tokens > pre.lp_supply
          /\ Failed
          /\ chain = pre

\* The whole reconciled supply is about to be taken off a pool whose minted
\* supply was below the tracked one.
C11_Witness ==
    /\ pc = "on_lp_burn"
    /\ pre.mint_supply < pre.lp_supply
    /\ args.tokens > 0
    /\ args.tokens = accts.lp_supply

(***************************************************************************)
(* C12 (as claimed).  Over a sequence of calls the tracked supply and both *)
(* leg balances never increase, each successful request reduces the         *)
(* tracked supply by its own amount, each request is applied at most once,  *)
(* and the LP amount burned from the holding never exceeds its balance.     *)
(***************************************************************************)
NeverIncreased ==
    /\ chain.lp_supply <= pre.lp_supply
    /\ chain.sol_leg_lamports <= pre.sol_leg_lamports
    /\ chain.msol_leg_amount <= pre.msol_leg_amount

\* What a call has persisted is nothing, or one application of its request.
AppliedAtMostOnce ==
    /\ chain # pre => Succeeded
    /\ Succeeded =>
          /\ chain.burn_from_amount = pre.burn_from_amount - args.tokens
          /\ chain.mint_supply = pre.mint_supply - args.tokens
          /\ chain.sol_leg_lamports + sol_out_amount = pre.sol_leg_lamports
          /\ chain.msol_leg_amount + msol_out_amount = pre.msol_leg_amount
    /\ chain.burn_from_amount >= 0
    /\ chain.burn_from_amount <= pre.burn_from_amount

C12_Original ==
    /\ NeverIncreased
    /\ AppliedAtMostOnce
    /\ Succeeded => chain.lp_supply = pre.lp_supply - args.tokens

(***************************************************************************)
(* C12 (amended).  As claimed, except for the amount of the reduction:     *)
(* each successful request reduces the tracked supply by its own amount     *)
(* when the minted supply is at least the tracked supply at its entry       *)
(* (always so after a successful call), and to minted supply - amount when  *)
(* the minted supply is below the tracked supply at its entry.              *)
(***************************************************************************)
C12_NoDoubleSpend ==
    /\ NeverIncreased
    /\ AppliedAtMostOnce
    /\ Succeeded =>
          /\ pre.mint_supply >= pre.lp_supply
                => chain.lp_supply = pre.lp_supply - args.tokens
          /\ pre.mint_supply < pre.lp_supply
                => chain.lp_supply = pre.mint_supply - args.tokens
          /\ chain.mint_supply >= chain.lp_supply

\* A second successful redemption from the same holding: the destinations
\* already hold an earlier payout.
C12_Witness ==
    /\ Succeeded
    /\ args.tokens > 0
    /\ pre.sol_to_lamports > 0
    /\ sol_out_amount > 0
    /\ chain.lp_supply = pre.lp_supply - args.tokens

(***************************************************************************)
(* C13.  For 0 < tokens <= D (the reconciled tracked supply) each payout   *)
(* is at most the leg reserve and is the floor of the exact share           *)
(* tokens * reserve / D, never more; for tokens = D it is the whole         *)
(* reserve, so redeeming the entire reconciled supply pays out the whole    *)
(* distributable native balance and the whole derivative balance.           *)
(***************************************************************************)
FloorShare(payout, reserve) ==
    /\ payout <= reserve
    /\ payout * Reconciled <= args.tokens * reserve
    /\ (payout + 1) * Reconciled > args.tokens * reserve
    /\ args.tokens = Reconciled => payout = reserve

C13_ProportionalShare ==
    /\ (pc = "msol_out_amount" /\ 0 < args.tokens /\ args.tokens <= Reconciled)
          => FloorShare(sol_out_amount, Distributable)
    /\ (pc \in {"check_min_amount", "transfer_sol"}
           /\ 0 < args.tokens /\ args.tokens <= Reconciled)
          => /\ FloorShare(sol_out_amount, Distributable)
             /\ FloorShare(msol_out_amount, pre.msol_leg_amount)
    /\ (Succeeded /\ 0 < args.tokens /\ args.tokens = Reconciled)
          => /\ sol_out_amount = Distributable
             /\ msol_out_amount = pre.msol_leg_amount
             /\ chain.sol_leg_lamports = chain.rent_exempt_for_token_acc
             /\ chain.msol_leg_amount = 0

\* The entire reconciled supply was redeemed and both legs were paid out.
C13_Witness ==
    /\ Succeeded
    /\ args.tokens = Reconciled
    /\ Distributable > 0 /\ pre.msol_leg_amount > 0
    /\ sol_out_amount = Distributable
    /\ msol_out_amount = pre.msol_leg_amount
    /\ chain.msol_leg_amount = 0

(***************************************************************************)
(* C14.  When the reconciled tracked supply is 0 (tracked supply 0 at      *)
(* entry, or minted supply 0), every call that passed validation and       *)
(* authorization fails with DivideByZero in the payout computation, for    *)
(* any amount including 0, with no transfer, no burn and no change of the  *)
(* tracked supply.  On a pool whose native leg holds less than the         *)
(* reserved floor the call aborts in checked_sub(..).unwrap() (lines       *)
(* 103-106), before proportional is called, so the statement is violated.  *)
(***************************************************************************)
PassedPreCheck == InCall /\ ~Mismatch /\ AuthorityRule = Ok
BeforePayouts == pc \in {"update_lp_supply", "sol_out_amount"}
NothingSettled ==
    /\ chain = pre
    /\ cpi_log = <<>>
    /\ accts = [pre EXCEPT !.lp_supply = 0]

Taxonomy ==
    {ConfigMismatch, Unauthorized, InsufficientFunds, ArithmeticOverflow,
     DivideByZero, Underflow, SlippageExceeded, TransferFailure,
     ConversionError}

C15_TypedErrors == Failed => result \in Taxonomy

(***************************************************************************)
(* C16.  Floor rounding never leaks value: on a pool whose tracked supply  *)
(* equals the minted supply, after each successful call                     *)
(* reserve' * S >= reserve * S' for both legs (the reserve backing each     *)
(* remaining LP token never decreases), and the two supplies are equal      *)
(* again, so the same holds for the next call of the sequence.              *)
(***************************************************************************)
C16_NoLeak ==
    (Succeeded /\ pre.lp_supply = pre.mint_supply) =>
        /\ (chain.sol_leg_lamports - chain.rent_exempt_for_token_acc)
              * pre.lp_supply >= Distributable * chain.lp_supply
        /\ chain.msol_leg_amount * pre.lp_supply
              >= pre.msol_leg_amount * chain.lp_supply
        /\ chain.sol_leg_lamports >= chain.rent_exempt_for_token_acc
        /\ chain.lp_supply = chain.mint_supply
        /\ chain.lp_supply = pre.lp_supply - args.tokens

\* A redemption whose exact share is not an integer: the payout was rounded
\* down and the reserve per remaining LP token went up.
C16_Witness ==
    /\ Succeeded
    /\ pre.lp_supply = pre.mint_supply
    /\ args.tokens > 0 /\ chain.lp_supply > 0
    /\ sol_out_amount * pre.lp_supply < args.tokens * Distributable
    /\ (chain.sol_leg_lamports - chain.rent_exempt_for_token_acc)
          * pre.lp_supply > Distributable * chain.lp_supply

(***************************************************************************)
(* C17.  process writes no field of the pool configuration other than the  *)
(* tracked LP supply: the mint identity, the leg custody addresses, the     *)
(* reserved floor, min_withdraw and the rate state are the same in the      *)
(* working copy and in the persisted state as before the call, in every     *)
(* call, and the tracked supply is written back only on success.            *)
(***************************************************************************)
ConfigOf(a) ==
    <<a.lp_mint, a.msol_leg, a.msol_leg_authority,
      a.rent_exempt_for_token_acc, a.min_withdraw, a.rate_value,
      a.rate_shares>>

C17_ConfigFrame ==
    /\ ConfigOf(accts) = ConfigOf(pre)
    /\ ConfigOf(chain) = ConfigOf(pre)
    /\ chain.lp_supply # pre.lp_supply => Succeeded

\* A successful call changed the tracked supply and nothing of the
\* configuration.
C17_Witness ==
    /\ Succeeded
    /\ chain.lp_supply < pre.lp_supply
    /\ ConfigOf(chain) = ConfigOf(pre)

(***************************************************************************)
(* C18 (as claimed).  In the final state of every call, funds have left a  *)
(* leg custody if and only if the call succeeded, and then the holding and  *)
(* the minted supply decreased by exactly tokens and the destinations       *)
(* increased by exactly the payouts; a failed call leaves no payout with    *)
(* the destinations.                                                        *)
(***************************************************************************)
FundsLeft ==
    \/ chain.sol_leg_lamports # pre.sol_leg_lamports
    \/ chain.msol_leg_amount # pre.msol_leg_amount

ExactSettlement ==
    /\ chain.burn_from_amount = pre.burn_from_amount - args.tokens
    /\ chain.mint_supply = pre.mint_supply - args.tokens
    /\ chain.sol_to_lamports = pre.sol_to_lamports + sol_out_amount
    /\ chain.msol_to_amount = pre.msol_to_amount + msol_out_amount
    /\ chain.sol_leg_lamports = pre.sol_leg_lamports - sol_out_amount
    /\ chain.msol_leg_amount = pre.msol_leg_amount - msol_out_amount

NoPayoutKept ==
    /\ chain.sol_to_lamports = pre.sol_to_lamports
    /\ chain.msol_to_amount = pre.msol_to_amount
    /\ chain.burn_from_amount = pre.burn_from_amount
    /\ chain.mint_supply = pre.mint_supply

C18_Original ==
    Done =>
        /\ FundsLeft <=> Succeeded
        /\ Succeeded => ExactSettlement
        /\ Failed => NoPayoutKept

(***************************************************************************)
(* C18 (amended).  In the final state of every call, funds have left a leg *)
(* custody only if the call succeeded; a successful call has decreased the  *)
(* holding and the minted supply by exactly tokens, the legs by exactly the *)
(* payouts and increased the destinations by exactly the payouts, where     *)
(* both payouts can be 0 when min_withdraw is 0 (with min_withdraw > 0 a    *)
(* successful call always moves funds); a failed call, such as a delegate   *)
(* call whose burn fails after the transfers ran, keeps no payout.          *)
(***************************************************************************)
C18_PayoutWithBurn ==
    Done =>
        /\ FundsLeft => Succeeded
        /\ (Succeeded /\ pre.min_withdraw > 0) => FundsLeft
        /\ Succeeded => ExactSettlement
        /\ Failed => NoPayoutKept

\* A delegate with allowance >= tokens on a holding with balance < tokens:
\* the check passed, a transfer ran, the burn failed, no payout was kept.
C18_Witness ==
    /\ Failed
    /\ args.burn_from_authority # pre.burn_from_owner
    /\ args.burn_from_authority = pre.burn_from_delegate
    /\ pre.burn_from_delegated_amount >= args.tokens
    /\ pre.burn_from_amount < args.tokens
    /\ Issued("transfer_sol") /\ Issued("burn")
    /\ accts.sol_to_lamports > pre.sol_to_lamports
    /\ NoPayoutKept
    /\ ~FundsLeft

(***************************************************************************)
(* C19.  A successful call and the divergence of the two supplies: with    *)
(* minted <= tracked at entry, both end at the old minted supply - tokens;  *)
(* with minted > tracked at entry, minted - tracked is the same after the   *)
(* call as before (the divergence is not repaired) and the payouts were     *)
(* computed over the smaller tracked supply.                                *)
(***************************************************************************)
C19_DivergenceKept ==
    Succeeded =>
        /\ pre.mint_supply <= pre.lp_supply =>
              /\ chain.lp_supply = pre.mint_supply - args.tokens
              /\ chain.mint_supply = pre.mint_supply - args.tokens
        /\ pre.mint_supply > pre.lp_supply =>
              /\ chain.mint_supply - chain.lp_supply
                    = pre.mint_supply - pre.lp_supply
              /\ chain.mint_supply > chain.lp_supply
              /\ sol_out_amount
                    = (args.tokens * Distributable) \div pre.lp_supply
              /\ msol_out_amount
                    = (args.tokens * pre.msol_leg_amount) \div pre.lp_supply

\* A successful redemption with a payout on a pool whose minted supply was
\* above the tracked one: the payout is larger than over the minted supply.
C19_Witness ==
    /\ Succeeded
    /\ pre.mint_supply > pre.lp_supply
    /\ args.tokens > 0
    /\ sol_out_amount > (args.tokens * Distributable) \div pre.mint_supply
    /\ chain.mint_supply - chain.lp_supply = pre.mint_supply - pre.lp_supply

====
